---- MODULE Spec2Model ----
(***************************************************************************)
(* SET / RESET of session variables: pkg/sql/set_var.go.                   *)
(*                                                                         *)
(* One behaviour is the life of one SET statement in a session: the        *)
(* session is in some state (Init), planner.SetVar compiles the request    *)
(* into a setVarNode or rejects it, the cluster settings may change, and   *)
(* setVarNode.startExec executes the node.                                 *)
(*                                                                         *)
(* Scale.  TLC's integers are 32 bits wide, time.Duration is a 64-bit      *)
(* count of nanoseconds.  The model counts durations in microseconds and   *)
(* keeps them DurBits wide; every product the code computes in int64 is    *)
(* wrapped to DurBits (WrapDur), so that the code's silent overflow is     *)
(* still there, only at smaller numbers.                                   *)
(*                                                                         *)
(* Text.  A string is a sequence of tokens [neg, w, f, u]: an optional     *)
(* minus sign, a whole number, the digits after the decimal point (as a    *)
(* count of microseconds) and the word that follows.  "5000ms" is one      *)
(* token, "1m30s" two, "-1" one token with no word.  Formatting and        *)
(* parsing work on the tokens as the library functions work on the         *)
(* characters.                                                             *)
(***************************************************************************)
EXTENDS Integers, Sequences, FiniteSets, TLC

\* ---------------------------------------------------------------- bounds

\* The largest number of mutators (sessionData stack elements) a session has.
MaxMutators == 3
\* The width of time.Duration in the model (64 in the code).
DurBits == 24

\* ------------------------------------------------------------- durations

\* time.Millisecond and time.Second in the model's unit (one microsecond is 1).
Millisecond == 1000
Second == 1000000

\* Let(e, F) is F of the value of e: a local name for an intermediate result.
Let(e, F(_)) == F(e)

Pow2(n) == 2 ^ n
MaxDur == Pow2(DurBits - 1) - 1
MinDur == -Pow2(DurBits - 1)

\* Two's-complement wrap-around of an int64 result.
WrapDur(x) == ((x + Pow2(DurBits - 1)) % Pow2(DurBits)) - Pow2(DurBits - 1)

\* ------------------------------------------------------------------ text

Tok(neg, w, f, u) == [neg |-> neg, w |-> w, f |-> f, u |-> u]
\* A string that is one word ("abc", "off").
Word(s) == <<Tok(FALSE, 0, 0, s)>>
\* A string that is one number with a unit ("5000ms"), or none ("-1").
Num(n, u) == <<Tok(n < 0, IF n < 0 THEN -n ELSE n, 0, u)>>
EmptyString == <<>>
\* A string that is a number given in thousandths ("1.5", "-8.0").
MilliText(milli) ==
    <<Tok(milli < 0, (IF milli < 0 THEN -milli ELSE milli) \div 1000,
          (IF milli < 0 THEN -milli ELSE milli) % 1000, "")>>

\* time.Duration.String(): "0s", "1.5ms", "784us", "5s", "1m30s", "1h0m0s",
\* with one leading minus sign for a negative duration.
DurationStringAbs(u) ==
    IF u = 0 THEN <<Tok(FALSE, 0, 0, "s")>>
    ELSE IF u < Millisecond THEN <<Tok(FALSE, u, 0, "us")>>
    ELSE IF u < Second THEN <<Tok(FALSE, u \div Millisecond, u % Millisecond, "ms")>>
    ELSE LET secs == u \div Second
             mins == secs \div 60
             hours == mins \div 60
             s == <<Tok(FALSE, secs % 60, u % Second, "s")>>
             m == IF mins > 0 THEN <<Tok(FALSE, mins % 60, 0, "m")>> ELSE <<>>
             h == IF hours > 0 THEN <<Tok(FALSE, hours, 0, "h")>> ELSE <<>>
         IN h \o m \o s

DurationString(d) ==
    IF d < 0
    THEN Let(DurationStringAbs(-d), LAMBDA abs :
             <<[abs[1] EXCEPT !.neg = TRUE]>> \o Tail(abs))
    ELSE DurationStringAbs(d)

\* ------------------------------------------------------------- intervals

\* duration.IntervalStyle: the styles a session can be configured with.
IntervalStyles == {"postgres", "sql_standard"}

\* A tree.DInterval: its sub-day part, and whether its month and day parts
\* are too large for Encode to fit the whole in an int64.
Interval(nanos, overflow) == [nanos |-> nanos, overflow |-> overflow]

\* duration.Duration.Encode(): the interval as one int64, or an error.
Encode(interval) ==
    IF interval.overflow THEN [ok |-> FALSE, nanos |-> 0]
    ELSE [ok |-> TRUE, nanos |-> interval.nanos]

\* intervalToDuration
intervalToDuration(interval) ==
    Let(Encode(interval), LAMBDA e :
        IF ~e.ok THEN [ok |-> FALSE, d |-> 0] ELSE [ok |-> TRUE, d |-> e.nanos])

\* The words the interval parser reads as units; a number with no unit is
\* read in the unit of the type metadata, here milliseconds.
IntervalUnits == {"", "us", "ms", "s", "m", "h"}

\* Whether a token's magnitude fits the duration at all (an hour never
\* does at this width, and 3600 seconds is no number TLC can multiply up).
TokenFits(tok) ==
    CASE tok.u = "h" -> tok.w = 0
      [] tok.u = "m" -> tok.w <= MaxDur \div (60 * Second)
      [] tok.u = "s" -> tok.w <= MaxDur \div Second
      [] tok.u = "us" -> tok.w <= MaxDur
      [] OTHER -> tok.w <= MaxDur \div Millisecond

TokenMagnitude(tok) ==
    CASE tok.u = "h" -> 0
      [] tok.u = "m" -> tok.w * 60 * Second + tok.f
      [] tok.u = "s" -> tok.w * Second + tok.f
      [] tok.u = "us" -> tok.w
      [] OTHER -> tok.w * Millisecond + tok.f

\* The sum of the tokens' values; with allNegative the signs are ignored
\* and the caller negates the sum.
SumTokens(text, allNegative) ==
    LET sum[i \in 0..Len(text)] ==
            IF i = 0 THEN 0
            ELSE sum[i - 1]
                 + (IF text[i].neg /\ ~allNegative
                    THEN -TokenMagnitude(text[i]) ELSE TokenMagnitude(text[i]))
    IN sum[Len(text)]

\* tree.ParseDIntervalWithTypeMetadata with a MILLISECOND duration field.
\* Every number carries its own sign, except that in the sql_standard
\* style one leading minus sign with no other sign after it negates the
\* whole interval.
IsSQLStandardNegative(style, text) ==
    /\ style = "sql_standard"
    /\ text[1].neg
    /\ \A i \in 2..Len(text) : ~text[i].neg

IntervalOf(total) ==
    IF total > MaxDur \/ total < MinDur THEN Interval(0, TRUE) ELSE Interval(total, FALSE)

ParseDIntervalWithTypeMetadata(style, text) ==
    IF text = <<>> \/ \E i \in 1..Len(text) : text[i].u \notin IntervalUnits
    THEN [ok |-> FALSE, interval |-> Interval(0, FALSE)]
    ELSE IF \E i \in 1..Len(text) : ~TokenFits(text[i])
    THEN [ok |-> TRUE, interval |-> Interval(0, TRUE)]
    ELSE IF IsSQLStandardNegative(style, text)
    THEN [ok |-> TRUE, interval |-> IntervalOf(-SumTokens(text, TRUE))]
    ELSE [ok |-> TRUE, interval |-> IntervalOf(SumTokens(text, FALSE))]

\* ---------------------------------------------------------------- errors

NoErr == [kind |-> "nil", name |-> "", detail |-> ""]
Err(kind, name, detail) == [kind |-> kind, name |-> name, detail |-> detail]

\* newSingleArgVarError
newSingleArgVarError(varName) == Err("InvalidParameterValue", varName, "takes only one argument")
\* wrapSetVarError
wrapSetVarError(varName, detail) == Err("InvalidParameterValue", varName, detail)
\* newVarValueError
newVarValueError(varName) == Err("InvalidParameterValue", varName, "invalid value")
\* newCannotChangeParameterError
newCannotChangeParameterError(varName) == Err("CantChangeRuntimeParam", varName, "cannot be changed")

\* -------------------------------------------------------- timeout setters

\* Fault: validateTimeoutVar without its check of the sign.
validateTimeoutVar_NoSignCheck(style, timeString, varName) ==
    Let(ParseDIntervalWithTypeMetadata(style, timeString), LAMBDA parsed :
        IF ~parsed.ok
        THEN [timeout |-> 0, err |-> wrapSetVarError(varName, "parse")]
        ELSE Let(intervalToDuration(parsed.interval), LAMBDA conv :
            IF ~conv.ok
            THEN [timeout |-> 0, err |-> wrapSetVarError(varName, "encode")]
            ELSE [timeout |-> conv.d, err |-> NoErr]))

\* validateTimeoutVar
validateTimeoutVar(style, timeString, varName) ==
    Let(ParseDIntervalWithTypeMetadata(style, timeString), LAMBDA parsed :
        IF ~parsed.ok
        THEN [timeout |-> 0, err |-> wrapSetVarError(varName, "parse")]
        ELSE Let(intervalToDuration(parsed.interval), LAMBDA conv :
            IF ~conv.ok
            THEN [timeout |-> 0, err |-> wrapSetVarError(varName, "encode")]
            ELSE IF conv.d < 0
            THEN [timeout |-> 0,
                  err |-> wrapSetVarError(varName, "cannot have a negative duration")]
            ELSE [timeout |-> conv.d, err |-> NoErr]))

\* The result of a setter on one mutator: the error and the mutator's data.
SetResult(err, data) == [err |-> err, data |-> data]

\* stmtTimeoutVarSet
stmtTimeoutVarSet(m, s) ==
    Let(validateTimeoutVar(m.IntervalStyle, s, "statement_timeout"), LAMBDA v :
        IF v.err # NoErr THEN SetResult(v.err, m)
        ELSE SetResult(NoErr, [m EXCEPT !.StmtTimeout = v.timeout]))

\* lockTimeoutVarSet
lockTimeoutVarSet(m, s) ==
    Let(validateTimeoutVar(m.IntervalStyle, s, "lock_timeout"), LAMBDA v :
        IF v.err # NoErr THEN SetResult(v.err, m)
        ELSE SetResult(NoErr, [m EXCEPT !.LockTimeout = v.timeout]))

\* idleInSessionTimeoutVarSet
idleInSessionTimeoutVarSet(m, s) ==
    Let(validateTimeoutVar(m.IntervalStyle, s, "idle_in_session_timeout"), LAMBDA v :
        IF v.err # NoErr THEN SetResult(v.err, m)
        ELSE SetResult(NoErr, [m EXCEPT !.IdleInSessionTimeout = v.timeout]))

\* idleInTransactionSessionTimeoutVarSet
idleInTransactionSessionTimeoutVarSet(m, s) ==
    Let(validateTimeoutVar(m.IntervalStyle, s, "idle_in_transaction_session_timeout"),
        LAMBDA v :
        IF v.err # NoErr THEN SetResult(v.err, m)
        ELSE SetResult(NoErr, [m EXCEPT !.IdleInTransactionSessionTimeout = v.timeout]))

\* The setter of a variable with no validation of its own, such as
\* application_name: it stores the string.
applicationNameSet(m, s) == SetResult(NoErr, [m EXCEPT !.ApplicationName = s])

\* -------------------------------------------------------------- time zones

\* A *time.Location: its name, which is what String() returns, and its
\* offset from UTC in seconds.
Location(name, offset) == [name |-> name, offset |-> offset]

\* The zones of the time-zone database that the model knows, by name.
ZoneOffsets == [name \in {"UTC", "Europe/Paris"} |-> IF name = "UTC" THEN 0 ELSE 60 * 60]

FixedOffsetPrefix == "fixed offset:"

\* timeutil.FixedOffsetTimeZoneToLocation(offset, origRepr): a zone named
\* after the offset and the text the user gave.
FixedOffsetTimeZoneToLocation(offset, origRepr) ==
    Location(<<Tok(offset < 0, IF offset < 0 THEN -offset ELSE offset, 0,
                   FixedOffsetPrefix)>> \o origRepr,
             offset)

\* timeutil.TimeZoneStringToLocation with the ISO 8601 standard: the name
\* of a fixed-offset zone, a name of the database, or a bare number of
\* hours east of UTC.
TimeZoneStringToLocation(text) ==
    IF text # <<>> /\ text[1].u = FixedOffsetPrefix
    THEN [ok |-> TRUE,
          loc |-> Location(text, IF text[1].neg THEN -text[1].w ELSE text[1].w)]
    ELSE IF Len(text) = 1 /\ text[1].u \in DOMAIN ZoneOffsets
    THEN [ok |-> TRUE, loc |-> Location(text, ZoneOffsets[text[1].u])]
    ELSE IF Len(text) = 1 /\ text[1].u = "" /\ text[1].f = 0
    THEN [ok |-> TRUE,
          loc |-> Location(text, (IF text[1].neg THEN -text[1].w ELSE text[1].w) * 60 * 60)]
    ELSE [ok |-> FALSE, loc |-> Location(<<>>, 0)]

\* timeZoneVarSet
timeZoneVarSet(m, s) ==
    Let(TimeZoneStringToLocation(s), LAMBDA found :
        IF ~found.ok THEN SetResult(wrapSetVarError("TimeZone", "lookup"), m)
        ELSE SetResult(NoErr, [m EXCEPT !.Location = found.loc]))

\* ------------------------------------------------------- values and names

\* tree.Datum: the value an expression evaluates to.
DString(text) == [t |-> "DString", s |-> text, i |-> 0, iv |-> Interval(0, FALSE)]
DInt(n) == [t |-> "DInt", s |-> <<>>, i |-> n, iv |-> Interval(0, FALSE)]
DInterval(interval) == [t |-> "DInterval", s |-> <<>>, i |-> 0, iv |-> interval]
\* A DFloat, in thousandths.
DFloat(milli) == [t |-> "DFloat", s |-> <<>>, i |-> milli, iv |-> Interval(0, FALSE)]
\* A DDecimal, in thousandths: exact, whatever its size.
DDecimal(milli) == [t |-> "DDecimal", s |-> <<>>, i |-> milli, iv |-> Interval(0, FALSE)]

\* tree.Expr: the DEFAULT keyword, or an expression that type-checks or
\* not and evaluates to its datum or fails; "Datum" is an expression that
\* startExec has replaced by its value.
DefaultVal == [kind |-> "DefaultVal", typeOk |-> TRUE, evalOk |-> FALSE, d |-> DInt(0)]
Expr(d) == [kind |-> "Expr", typeOk |-> TRUE, evalOk |-> TRUE, d |-> d]
IllTypedExpr == [kind |-> "Expr", typeOk |-> FALSE, evalOk |-> FALSE, d |-> DInt(0)]
FailingExpr == [kind |-> "Expr", typeOk |-> TRUE, evalOk |-> FALSE, d |-> DInt(0)]
Datum(d) == [kind |-> "Datum", typeOk |-> TRUE, evalOk |-> TRUE, d |-> d]

\* []tree.TypedExpr, which may be nil.
NilValues == [nil |-> TRUE, elems |-> <<>>]
Values(elems) == [nil |-> FALSE, elems |-> elems]

\* strings.ToLower on the spellings the model's requests use.
UpperSpellings ==
    [s \in {"LOCK_TIMEOUT", "TimeZone", "TIMEZONE"} |->
        IF s = "LOCK_TIMEOUT" THEN "lock_timeout" ELSE "timezone"]
\* Fault: the name looked up as it was written.
ToLower_Identity(s) == s

ToLower(s) == IF s \in DOMAIN UpperSpellings THEN UpperSpellings[s] ELSE s

\* ------------------------------------------------------------- registry

\* sessionVar: which of its functions are set (the name of a function, or
\* "nil").
SessionVar(get, set, runtimeSet, setWithPlanner, globalDefault) ==
    [GetStringVal |-> get, Set |-> set, RuntimeSet |-> runtimeSet,
     SetWithPlanner |-> setWithPlanner, GlobalDefault |-> globalDefault]

NilVar == SessionVar("nil", "nil", FALSE, FALSE, "nil")

\* varGen: the registry of session variables.  The four timeouts are the
\* variables whose functions set_var.go defines, as is the time zone; the
\* others stand for the
\* shapes a descriptor can have: a plain generic setter, a runtime setter,
\* a planner setter, none (read-only), and several at once.
varGen ==
    [name \in {"statement_timeout", "lock_timeout", "idle_in_session_timeout",
               "idle_in_transaction_session_timeout", "timezone", "application_name",
               "enable_seqscan", "tracing", "role", "server_version",
               "runtime_and_set", "planner_and_set", "all_setters"} |->
        CASE name = "statement_timeout" ->
                 SessionVar("timeout", "stmtTimeoutVarSet", FALSE, FALSE, "timeout")
          [] name = "lock_timeout" ->
                 SessionVar("timeout", "lockTimeoutVarSet", FALSE, FALSE, "timeout")
          [] name = "idle_in_session_timeout" ->
                 SessionVar("timeout", "idleInSessionTimeoutVarSet", FALSE, FALSE, "timeout")
          [] name = "idle_in_transaction_session_timeout" ->
                 SessionVar("timeout", "idleInTransactionSessionTimeoutVarSet", FALSE, FALSE, "timeout")
          [] name = "timezone" ->
                 SessionVar("timezone", "timeZoneVarSet", FALSE, FALSE, "utc")
          [] name = "application_name" ->
                 SessionVar("nil", "applicationNameSet", FALSE, FALSE, "const")
          [] name = "enable_seqscan" ->
                 SessionVar("nil", "applicationNameSet", FALSE, FALSE, "const")
          [] name = "tracing" -> SessionVar("nil", "nil", TRUE, FALSE, "nil")
          [] name = "role" -> SessionVar("nil", "nil", FALSE, TRUE, "const")
          [] name = "server_version" -> SessionVar("nil", "nil", FALSE, FALSE, "nil")
          [] name = "runtime_and_set" ->
                 SessionVar("nil", "applicationNameSet", TRUE, FALSE, "const")
          [] name = "planner_and_set" ->
                 SessionVar("nil", "applicationNameSet", FALSE, TRUE, "nil")
          [] OTHER -> SessionVar("nil", "applicationNameSet", TRUE, TRUE, "const")]

\* DummyVars: the variables that are accepted and do nothing.
DummyVars == {"enable_seqscan"}

\* getSessionVar(name, missingOk = false)
getSessionVar(name) ==
    IF name \in DOMAIN varGen
    THEN [v |-> varGen[name], err |-> NoErr]
    ELSE [v |-> NilVar, err |-> Err("UndefinedObject", name, "unrecognized configuration parameter")]

\* sessionVar.GlobalDefault(&settings.SV): nil, a duration setting
\* rendered as text, or a fixed string.
GlobalDefault(v, name, sv) ==
    IF v.GlobalDefault = "timeout" THEN DurationString(sv.timeout)
    ELSE IF v.GlobalDefault = "utc" THEN Word("UTC")
    ELSE Word(name)

\* Fault: getSessionVarDefaultString that asks the global default first.
getSessionVarDefaultString_GlobalFirst(varName, v, m) ==
    IF v.GlobalDefault # "nil"
    THEN [ok |-> TRUE, s |-> GlobalDefault(v, varName, m.settings)]
    ELSE IF varName \in DOMAIN m.defaults THEN [ok |-> TRUE, s |-> m.defaults[varName]]
    ELSE [ok |-> FALSE, s |-> EmptyString]

\* getSessionVarDefaultString
getSessionVarDefaultString(varName, v, m) ==
    IF varName \in DOMAIN m.defaults THEN [ok |-> TRUE, s |-> m.defaults[varName]]
    ELSE IF v.GlobalDefault # "nil"
    THEN [ok |-> TRUE, s |-> GlobalDefault(v, varName, m.settings)]
    ELSE [ok |-> FALSE, s |-> EmptyString]

\* ------------------------------------------------------------ converters

\* paramparse.DatumAsString: the value's textual form.
DatumAsString(d) ==
    CASE d.t = "DString" -> d.s
      [] d.t = "DInt" -> Num(d.i, "")
      [] d.t = "DInterval" ->
             IF d.iv.overflow THEN Word("interval") ELSE DurationString(d.iv.nanos)
      [] OTHER -> MilliText(d.i)

\* Datum.String(): the value as SQL writes it, text and intervals in quotes.
DatumString(d) ==
    IF d.t \in {"DString", "DInterval"}
    THEN Word("'") \o DatumAsString(d) \o Word("'")
    ELSE DatumAsString(d)

\* getStringVal
getStringVal(name, values) ==
    IF Len(values) # 1 THEN [s |-> EmptyString, err |-> newSingleArgVarError(name)]
    ELSE [s |-> DatumAsString(values[1].d), err |-> NoErr]

\* Fault: a value of another type than the three is refused.
makeTimeoutVarGetter_TypeChecked(varName, values) ==
    IF Len(values) # 1 THEN [s |-> EmptyString, err |-> newSingleArgVarError(varName)]
    ELSE CASE values[1].d.t = "DString" -> [s |-> values[1].d.s, err |-> NoErr]
           [] values[1].d.t = "DInterval" ->
                  Let(intervalToDuration(values[1].d.iv), LAMBDA conv :
                      IF ~conv.ok
                      THEN [s |-> EmptyString, err |-> wrapSetVarError(varName, "encode")]
                      ELSE [s |-> DurationString(conv.d), err |-> NoErr])
           [] values[1].d.t = "DInt" ->
                  [s |-> DurationString(WrapDur(values[1].d.i * Millisecond)),
                   err |-> NoErr]
           [] OTHER -> [s |-> EmptyString, err |-> newVarValueError(varName)]

\* The function makeTimeoutVarGetter(varName) returns.
makeTimeoutVarGetter(varName, values) ==
    IF Len(values) # 1 THEN [s |-> EmptyString, err |-> newSingleArgVarError(varName)]
    ELSE CASE values[1].d.t = "DString" -> [s |-> values[1].d.s, err |-> NoErr]
           [] values[1].d.t = "DInterval" ->
                  Let(intervalToDuration(values[1].d.iv), LAMBDA conv :
                      IF ~conv.ok
                      THEN [s |-> EmptyString, err |-> wrapSetVarError(varName, "encode")]
                      ELSE [s |-> DurationString(conv.d), err |-> NoErr])
           [] values[1].d.t = "DInt" ->
                  [s |-> DurationString(WrapDur(values[1].d.i * Millisecond)),
                   err |-> NoErr]
           [] OTHER -> [s |-> DurationString(0), err |-> NoErr]

\* Integer division as Go does it: towards zero.
Quo(a, b) == IF a >= 0 THEN a \div b ELSE -((-a) \div b)

\* The hours of a number given in thousandths, times 60 * 60, when that is
\* a whole number of seconds that an int64 holds.
ExactSeconds(milli) ==
    IF (milli * 18) % 5 = 0 /\ (milli * 18) \div 5 \in MinDur..MaxDur
    THEN [ok |-> TRUE, secs |-> (milli * 18) \div 5]
    ELSE [ok |-> FALSE, secs |-> 0]

\* What a conversion of an out-of-range float64 to int64 gives: Go leaves
\* it to the implementation, and the supported builds give the least or
\* the greatest int64.
ImplementationDependent == {MinDur, MaxDur}

\* int64(float64(*v) * 60.0 * 60.0): the values the build can give it.
FloatSeconds(milli) ==
    IF Quo(milli * 18, 5) \in MinDur..MaxDur THEN {Quo(milli * 18, 5)}
    ELSE ImplementationDependent

\* The conversions of a float that the time-zone converter can make of
\* these values (0 when it makes none).
FloatConversions(v, values) ==
    IF v.GetStringVal = "timezone" /\ ~values.nil /\ Len(values.elems) = 1
       /\ values.elems[1].d.t = "DFloat"
    THEN FloatSeconds(values.elems[1].d.i)
    ELSE {0}

\* Fault: the decimal's product computed in int64, wrapping.
DecimalOffset_Wrapping(d) ==
    [err |-> NoErr, offset |-> WrapDur(Quo(d.i * 18, 5))]

\* The DDecimal case of timeZoneVarGetStringVal: 3600 times the decimal in
\* exact arithmetic, then ed.Int64, which fails unless the product is a
\* whole number that an int64 holds.
DecimalOffset(d) ==
    Let(ExactSeconds(d.i), LAMBDA p :
        IF ~p.ok
        THEN [err |-> wrapSetVarError("timezone", "would overflow an int64"), offset |-> 0]
        ELSE [err |-> NoErr, offset |-> p.secs])

\* The DInt case of timeZoneVarGetStringVal: int64(*v) * 60 * 60.
IntOffset(d) == [err |-> NoErr, offset |-> WrapDur(WrapDur(d.i * 60) * 60)]

\* The DInterval case of timeZoneVarGetStringVal.
IntervalOffset(d) ==
    Let(Encode(d.iv), LAMBDA e :
        IF ~e.ok THEN [err |-> wrapSetVarError("timezone", "encode"), offset |-> 0]
        ELSE [err |-> NoErr, offset |-> Quo(e.nanos, Second)])

\* The offset in seconds that timeZoneVarGetStringVal computes for a value
\* that is no text; floatSeconds is what the build makes of a float.
TimeZoneOffset(d, floatSeconds) ==
    CASE d.t = "DInterval" -> IntervalOffset(d)
      [] d.t = "DInt" -> IntOffset(d)
      [] d.t = "DFloat" -> [err |-> NoErr, offset |-> floatSeconds]
      [] d.t = "DDecimal" -> DecimalOffset(d)
      [] OTHER -> [err |-> newVarValueError("timezone"), offset |-> 0]

\* timeZoneVarGetStringVal.  int(offset) keeps the offset as it is: int is
\* 64 bits wide on every platform the program is built for.
timeZoneVarGetStringVal(values, floatSeconds) ==
    IF Len(values) # 1 THEN [s |-> EmptyString, err |-> newSingleArgVarError("timezone")]
    ELSE IF values[1].d.t = "DString"
    THEN Let(TimeZoneStringToLocation(values[1].d.s), LAMBDA found :
             IF ~found.ok
             THEN [s |-> EmptyString,
                   err |-> wrapSetVarError("timezone", "cannot find time zone")]
             ELSE [s |-> found.loc.name, err |-> NoErr])
    ELSE Let(TimeZoneOffset(values[1].d, floatSeconds), LAMBDA o :
             IF o.err # NoErr THEN [s |-> EmptyString, err |-> o.err]
             ELSE [s |-> FixedOffsetTimeZoneToLocation(o.offset,
                                                       DatumString(values[1].d)).name,
                   err |-> NoErr])

\* n.v.GetStringVal(ctx, evalCtx, values), or getStringVal when it is nil.
GetStringVal(v, name, values, floatSeconds) ==
    IF v.GetStringVal = "timezone" THEN timeZoneVarGetStringVal(values, floatSeconds)
    ELSE IF v.GetStringVal # "nil" THEN makeTimeoutVarGetter(name, values)
    ELSE getStringVal(name, values)

\* ---------------------------------------------------------- mutator set

\* n.v.Set(ctx, m, strVal): the descriptor's generic setter on one mutator.
VarSet(v, m, s) ==
    CASE v.Set = "stmtTimeoutVarSet" -> stmtTimeoutVarSet(m, s)
      [] v.Set = "lockTimeoutVarSet" -> lockTimeoutVarSet(m, s)
      [] v.Set = "idleInSessionTimeoutVarSet" -> idleInSessionTimeoutVarSet(m, s)
      [] v.Set = "idleInTransactionSessionTimeoutVarSet" ->
             idleInTransactionSessionTimeoutVarSet(m, s)
      [] v.Set = "timeZoneVarSet" -> timeZoneVarSet(m, s)
      [] OTHER -> applicationNameSet(m, s)

\* One invocation of a setter strategy: the function, the mutator it was
\* given (0 for the strategies that are given none), the string, the error.
Call(fn, m, s, err) == [fn |-> fn, m |-> m, s |-> s, err |-> err]

\* What applying a function to the mutator set gives: the error returned,
\* the mutators afterwards, the invocations made and the notices buffered.
Applied(err, ms, calls, notices) ==
    [err |-> err, mutators |-> ms, calls |-> calls, notices |-> notices]

\* sessionDataMutatorIterator.applyOnTopMutator
applyOnTopMutator(ms, v, s) ==
    Let(VarSet(v, ms[Len(ms)], s), LAMBDA r :
        Applied(r.err, [ms EXCEPT ![Len(ms)] = r.data],
                <<Call("Set", Len(ms), s, r.err)>>, <<>>))

\* sessionDataMutatorIterator.applyOnEachMutatorError: every mutator from
\* the bottom of the stack to the top, stopping at the first error.
\* upTo[i] is the state of the loop after mutator i.
applyOnEachMutatorError(ms, v, s) ==
    LET upTo[i \in 0..Len(ms)] ==
            IF i = 0 THEN Applied(NoErr, ms, <<>>, <<>>)
            ELSE IF upTo[i - 1].err # NoErr THEN upTo[i - 1]
            ELSE Let(VarSet(v, ms[i], s), LAMBDA r :
                     Applied(r.err, [upTo[i - 1].mutators EXCEPT ![i] = r.data],
                             Append(upTo[i - 1].calls, Call("Set", i, s, r.err)), <<>>))
    IN upTo[Len(ms)]

LocalWarning == "SET LOCAL can only be used in transaction blocks"

\* Fault: SET SESSION applied to the topmost mutator only.
applyOnSessionDataMutators_SessionOnTop(local, implicit, ms, v, s) ==
    IF local /\ implicit THEN Applied(NoErr, ms, <<>>, <<LocalWarning>>)
    ELSE applyOnTopMutator(ms, v, s)

\* Fault: SET LOCAL applied whatever the transaction is.
applyOnSessionDataMutators_NoImplicitCheck(local, implicit, ms, v, s) ==
    IF local THEN applyOnTopMutator(ms, v, s) ELSE applyOnEachMutatorError(ms, v, s)

\* Fault: SET LOCAL applied to every mutator.
applyOnSessionDataMutators_LocalOnEach(local, implicit, ms, v, s) ==
    IF local /\ implicit THEN Applied(NoErr, ms, <<>>, <<LocalWarning>>)
    ELSE applyOnEachMutatorError(ms, v, s)

\* Fault: SET LOCAL in an implicit transaction validates the value with
\* the setter before it gives up.
applyOnSessionDataMutators_ImplicitValidates(local, implicit, ms, v, s) ==
    IF local /\ implicit
    THEN Applied(VarSet(v, ms[Len(ms)], s).err, ms, <<>>, <<LocalWarning>>)
    ELSE IF local THEN applyOnTopMutator(ms, v, s)
    ELSE applyOnEachMutatorError(ms, v, s)

\* planner.applyOnSessionDataMutators
applyOnSessionDataMutators(local, implicit, ms, v, s) ==
    IF local
    THEN IF implicit
         THEN Applied(NoErr, ms, <<>>, <<LocalWarning>>)
         ELSE applyOnTopMutator(ms, v, s)
    ELSE applyOnEachMutatorError(ms, v, s)

\* ----------------------------------------------------------------- state

VARIABLES
    mutators,     \* the sessionData stack, bottom first: one record per mutator
    txnImplicit,  \* EvalContext.TxnImplicit
    defaults,     \* sessionDataMutatorIterator.defaults: name -> string
    settings,     \* the cluster settings the global defaults are computed from
    pc,           \* "idle", "planned", "rejected" (SetVar failed), "executed"
    stmt,         \* the tree.SetVar request given to SetVar
    node,         \* the setVarNode SetVar returned
    err,          \* the error the last of SetVar and startExec returned
    notices,      \* the client notices buffered
    telemetry,    \* the dummy-variable usage counter
    trace         \* what the execution did: see Trace

vars == <<mutators, txnImplicit, defaults, settings, pc, stmt, node, err,
          notices, telemetry, trace>>

\* planSettings: the settings when the node was planned; before: the
\* mutators when startExec began; evaluated: how many expressions were
\* evaluated without error; resolved, strVal: whether a string was derived
\* and which; calls: the setter invocations, in order.
Trace(planSettings, before, evaluated, resolved, strVal, calls) ==
    [planSettings |-> planSettings, before |-> before, evaluated |-> evaluated,
     resolved |-> resolved, strVal |-> strVal, calls |-> calls]

\* setVarNode
SetVarNode(name, local, v, typedValues) ==
    [name |-> name, local |-> local, v |-> v, typedValues |-> typedValues]
NoNode == SetVarNode("", FALSE, NilVar, NilValues)

\* tree.SetVar
SetVarStmt(name, local, values) == [Name |-> name, Local |-> local, Values |-> values]

\* ---------------------------------------------------------------- inputs

\* The least integers whose product with time.Millisecond wraps to a
\* negative and to a positive duration.
WrapsNegative == MaxDur \div Millisecond + 1
WrapsPositive == Pow2(DurBits) \div Millisecond + 1

\* "-1s 1.5s": half a second when every number carries its own sign, minus
\* two and a half seconds when the leading sign negates the whole.
MixedSigns == <<Tok(TRUE, 1, 0, "s"), Tok(FALSE, 1, 500000, "s")>>

Datums ==
    {DInt(5000), DInt(-1), DInt(WrapsNegative), DInt(WrapsPositive),
     DInterval(Interval(5 * Second, FALSE)), DInterval(Interval(-Second, FALSE)),
     DInterval(Interval(0, TRUE)),
     DString(Num(5000, "ms")), DString(Num(-1, "")), DString(Word("abc")),
     DString(MixedSigns),
     DFloat(1500),
     \* for the time zone: hours as integer, decimal and float, and a name
     DInt(5), DDecimal(5000), DDecimal(-1000), DDecimal(1),
     DDecimal(WrapsNegative * 1000), DFloat(WrapsNegative * 1000),
     DString(Word("Europe/Paris"))}

ValueLists ==
    {<<>>, <<DefaultVal>>, <<IllTypedExpr>>, <<FailingExpr>>}
    \cup {<<Expr(d)>> : d \in Datums}
    \cup {<<Expr(DInt(5000)), Expr(DInt(5000))>>, <<DefaultVal, Expr(DInt(5000))>>,
          <<Expr(DInt(5000)), IllTypedExpr>>, <<IllTypedExpr, FailingExpr>>,
          <<Expr(DInt(5000)), FailingExpr>>, <<FailingExpr, Expr(DInt(5000))>>}

NameInputs == DOMAIN varGen \cup {"", "no_such_var"} \cup DOMAIN UpperSpellings

Requests ==
    {SetVarStmt(name, local, values) :
        name \in NameInputs, local \in BOOLEAN, values \in ValueLists}

\* The session defaults a connection can have been opened with.
DefaultsChoices ==
    {[name \in {} |-> EmptyString],
     [name \in {"statement_timeout"} |-> Num(3, "s")],
     [name \in {"tracing"} |-> Word("off")]}

SettingsChoices == {[timeout |-> 0], [timeout |-> 2 * Second]}

\* The data of mutator i when the statement arrives: every timeout is
\* i - 1 seconds, so that no two mutators hold the same value.
SessionData(i, style) ==
    [StmtTimeout |-> (i - 1) * Second, LockTimeout |-> (i - 1) * Second,
     IdleInSessionTimeout |-> (i - 1) * Second,
     IdleInTransactionSessionTimeout |-> (i - 1) * Second,
     IntervalStyle |-> style, ApplicationName |-> Word("app"),
     Location |-> Location(Word("UTC"), 0)]

\* ------------------------------------------------------------------ Init

\* A session at the moment a SET statement arrives.  Outside an explicit
\* transaction the stack holds the one session-level mutator; inside, it
\* holds one more per level, and earlier SET LOCAL intervalstyle
\* statements may have left the levels with different interval styles.
Init ==
    /\ \E depth \in 1..MaxMutators : \E styles \in [1..depth -> IntervalStyles] :
          /\ mutators = [i \in 1..depth |-> SessionData(i, styles[i])]
          /\ txnImplicit = (depth = 1)
    /\ defaults \in DefaultsChoices
    /\ settings \in SettingsChoices
    /\ pc = "idle"
    /\ stmt = SetVarStmt("", FALSE, <<>>)
    /\ node = NoNode
    /\ err = NoErr
    /\ notices = <<>>
    /\ telemetry = 0
    /\ trace = Trace(settings, mutators, 0, FALSE, EmptyString, <<>>)

\* ---------------------------------------------------------------- SetVar

\* The first index of elems at which P fails to hold... as the loops of
\* SetVar and startExec find it: 0 when there is none.
FirstIllTyped(elems) ==
    IF \E i \in 1..Len(elems) : ~elems[i].typeOk
    THEN CHOOSE i \in 1..Len(elems) :
            ~elems[i].typeOk /\ \A j \in 1..(i - 1) : elems[j].typeOk
    ELSE 0

FirstFailing(elems) ==
    IF \E i \in 1..Len(elems) : ~elems[i].evalOk
    THEN CHOOSE i \in 1..Len(elems) :
            ~elems[i].evalOk /\ \A j \in 1..(i - 1) : elems[j].evalOk
    ELSE 0

\* Fault: no descriptor is taken to be immutable.
IsImmutable_Never(v) == FALSE

\* SetVar's test that the descriptor has no setter at all.
IsImmutable(v) == v.Set = "nil" /\ ~v.RuntimeSet /\ ~v.SetWithPlanner

\* Fault: the session's own defaults are not consulted.
HasDefault_GlobalOnly(name, v, sessionDefaults) == v.GlobalDefault # "nil"

\* SetVar's test that a RESET has a default to reset to.
HasDefault(name, v, sessionDefaults) ==
    name \in DOMAIN sessionDefaults \/ v.GlobalDefault # "nil"

\* Fault: DEFAULT anywhere among the values makes the request a RESET.
IsReset_AnyDefault(values) == \E i \in 1..Len(values) : values[i].kind = "DefaultVal"

\* SetVar's isReset: the one value is DEFAULT.
IsReset(values) == Len(values) = 1 /\ values[1].kind = "DefaultVal"

\* planner.SetVar: the node, or the error.
PlanSetVar(n, sessionDefaults) ==
    LET name == ToLower(n.Name)
        found == getSessionVar(name)
        v == found.v
        isReset == IsReset(n.Values)
        typedValues ==
            IF Len(n.Values) > 0 /\ ~isReset THEN Values(n.Values) ELSE NilValues
    IN IF n.Name = ""
       THEN [node |-> NoNode, err |-> Err("Syntax", n.Name, "invalid variable name")]
       ELSE IF found.err # NoErr
       THEN [node |-> NoNode, err |-> found.err]
       ELSE IF ~typedValues.nil /\ FirstIllTyped(n.Values) # 0
       THEN [node |-> NoNode, err |-> wrapSetVarError(name, "typecheck")]
       ELSE IF IsImmutable(v)
       THEN [node |-> NoNode, err |-> newCannotChangeParameterError(name)]
       ELSE IF typedValues.nil /\ ~HasDefault(name, v, sessionDefaults)
       THEN [node |-> NoNode, err |-> newCannotChangeParameterError(name)]
       ELSE [node |-> SetVarNode(name, n.Local, v, typedValues), err |-> NoErr]

\* Fault: the dummy-variable notice and counter moved from startExec to
\* SetVar.
SetVar_NoticeAtPlan(n) ==
    /\ pc = "idle"
    /\ Let(PlanSetVar(n, defaults), LAMBDA planned :
          /\ pc' = IF planned.err = NoErr THEN "planned" ELSE "rejected"
          /\ node' = planned.node
          /\ err' = planned.err)
    /\ stmt' = n
    /\ trace' = [trace EXCEPT !.planSettings = settings]
    /\ telemetry' = IF ToLower(n.Name) \in DummyVars THEN telemetry + 1 ELSE telemetry
    /\ UNCHANGED <<mutators, txnImplicit, defaults, settings, notices>>

\* planner.SetVar.  The settings it was planned under are noted in trace.
SetVar(n) ==
    /\ pc = "idle"
    /\ Let(PlanSetVar(n, defaults), LAMBDA planned :
          /\ pc' = IF planned.err = NoErr THEN "planned" ELSE "rejected"
          /\ node' = planned.node
          /\ err' = planned.err)
    /\ stmt' = n
    /\ trace' = [trace EXCEPT !.planSettings = settings]
    /\ UNCHANGED <<mutators, txnImplicit, defaults, settings, notices, telemetry>>

\* A cluster setting changes while the statement is between planning and
\* execution.
ChangeSetting ==
    /\ pc = "planned"
    /\ \E sv \in SettingsChoices \ {settings} : settings' = sv
    /\ UNCHANGED <<mutators, txnImplicit, defaults, pc, stmt, node, err,
                   notices, telemetry, trace>>

\* ------------------------------------------------------------- startExec

DummyWarning == "setting session var is a no-op"

\* The first part of startExec: the expressions are evaluated in order and
\* replaced by their values, and the string is derived from them, or, for
\* a RESET, from the defaults.
\* Fault: the loop goes on after an expression failed.
EvalValues_NoStop(elems) ==
    Let(FirstFailing(elems), LAMBDA bad :
        [bad |-> bad,
         evaluated |-> Cardinality({i \in 1..Len(elems) : elems[i].evalOk}),
         elems |-> [i \in 1..Len(elems) |->
                      IF elems[i].evalOk THEN Datum(elems[i].d) ELSE elems[i]]])

EvalValues(elems) ==
    Let(FirstFailing(elems), LAMBDA bad :
        [bad |-> bad,
         evaluated |-> IF bad = 0 THEN Len(elems) ELSE bad - 1,
         elems |-> [i \in 1..Len(elems) |->
                      IF bad = 0 \/ i < bad THEN Datum(elems[i].d) ELSE elems[i]]])

ResolveStrVal(n, m, floatSeconds) ==
    IF n.typedValues.nil
    THEN [err |-> NoErr, resolved |-> TRUE, evaluated |-> 0,
          strVal |-> getSessionVarDefaultString(n.name, n.v, m).s,
          typedValues |-> n.typedValues]
    ELSE Let(EvalValues(n.typedValues.elems), LAMBDA e :
        IF e.bad # 0
        THEN [err |-> Err("Eval", n.name, "evaluation failed"), resolved |-> FALSE,
              evaluated |-> e.evaluated, strVal |-> EmptyString,
              typedValues |-> Values(e.elems)]
        ELSE Let(GetStringVal(n.v, n.name, e.elems, floatSeconds), LAMBDA conv :
            [err |-> conv.err, resolved |-> conv.err = NoErr,
             evaluated |-> e.evaluated, strVal |-> conv.s,
             typedValues |-> Values(e.elems)]))

\* What RuntimeSet and SetWithPlanner can return: they are functions of
\* the registry, which succeed or fail on grounds of their own.
StrategyErrs(name) == {NoErr, Err("InvalidParameterValue", name, "rejected by the setter")}

\* Fault: the generic setter tried before RuntimeSet and SetWithPlanner.
DispatchSet_GenericFirst(n, strVal, implicit, ms, outcome) ==
    IF n.v.Set # "nil"
    THEN applyOnSessionDataMutators(n.local, implicit, ms, n.v, strVal)
    ELSE IF n.v.RuntimeSet
    THEN Applied(outcome, ms, <<Call("RuntimeSet", 0, strVal, outcome)>>, <<>>)
    ELSE Applied(outcome, ms, <<Call("SetWithPlanner", 0, strVal, outcome)>>, <<>>)

\* The second part of startExec: the one setter strategy that is used.
\* outcome is what that strategy returns if it is RuntimeSet or
\* SetWithPlanner.
DispatchSet(n, strVal, implicit, ms, outcome) ==
    IF n.v.RuntimeSet
    THEN Applied(outcome, ms, <<Call("RuntimeSet", 0, strVal, outcome)>>, <<>>)
    ELSE IF n.v.SetWithPlanner
    THEN Applied(outcome, ms, <<Call("SetWithPlanner", 0, strVal, outcome)>>, <<>>)
    ELSE applyOnSessionDataMutators(n.local, implicit, ms, n.v, strVal)

\* Fault: a dummy variable's statement stops after the notice.
ExecResult_DummySkips(r, a, before, dummy) ==
    IF dummy \/ r.err # NoErr
    THEN [err |-> IF dummy THEN NoErr ELSE r.err, mutators |-> before,
          typedValues |-> r.typedValues,
          notices |-> IF dummy THEN <<DummyWarning>> ELSE <<>>,
          evaluated |-> r.evaluated, resolved |-> FALSE, strVal |-> EmptyString,
          calls |-> <<>>]
    ELSE [err |-> a.err, mutators |-> a.mutators, typedValues |-> r.typedValues,
          notices |-> a.notices,
          evaluated |-> r.evaluated, resolved |-> TRUE, strVal |-> r.strVal,
          calls |-> a.calls]

\* What startExec returns and leaves behind, given the string derivation r
\* and the setter dispatch a (which is used only if r did not fail).
ExecResult(r, a, before, dummy) ==
    IF r.err # NoErr
    THEN [err |-> r.err, mutators |-> before, typedValues |-> r.typedValues,
          notices |-> IF dummy THEN <<DummyWarning>> ELSE <<>>,
          evaluated |-> r.evaluated, resolved |-> FALSE, strVal |-> EmptyString,
          calls |-> <<>>]
    ELSE [err |-> a.err, mutators |-> a.mutators, typedValues |-> r.typedValues,
          notices |-> (IF dummy THEN <<DummyWarning>> ELSE <<>>) \o a.notices,
          evaluated |-> r.evaluated, resolved |-> TRUE, strVal |-> r.strVal,
          calls |-> a.calls]

\* setVarNode.startExec, with the strategy's own outcome given, and what
\* the build makes of a float converted to int64.
Exec(n, m, implicit, ms, outcome, floatSeconds) ==
    Let(ResolveStrVal(n, m, floatSeconds), LAMBDA r :
        ExecResult(r, DispatchSet(n, r.strVal, implicit, ms, outcome), ms,
                   n.name \in DummyVars))

startExec ==
    /\ pc = "planned"
    /\ \E outcome \in StrategyErrs(node.name) :
         \E x \in {Exec(node, [defaults |-> defaults, settings |-> settings],
                        txnImplicit, mutators, outcome, floatSeconds) :
                       floatSeconds \in FloatConversions(node.v, node.typedValues)} :
            /\ telemetry' = IF node.name \in DummyVars THEN telemetry + 1 ELSE telemetry
            /\ node' = [node EXCEPT !.typedValues = x.typedValues]
            /\ err' = x.err
            /\ mutators' = x.mutators
            /\ notices' = notices \o x.notices
            /\ trace' = Trace(trace.planSettings, mutators, x.evaluated, x.resolved,
                              x.strVal, x.calls)
    /\ pc' = "executed"
    /\ UNCHANGED <<txnImplicit, defaults, settings, stmt>>

\* ------------------------------------------------------------------ Spec

Next ==
    \/ \E n \in Requests : SetVar(n)
    \/ ChangeSetting
    \/ startExec

Spec == Init /\ [][Next]_vars

\* The session's defaults are a map that SetVar reads when it plans a
\* RESET and startExec reads again when it runs it.  Here the map changes
\* between the two reads.
ChangeDefaults ==
    /\ pc = "planned"
    /\ node.typedValues.nil
    /\ \E d \in DefaultsChoices \ {defaults} : defaults' = d
    /\ UNCHANGED <<mutators, txnImplicit, settings, pc, stmt, node, err,
                   notices, telemetry, trace>>

NextDefaults ==
    \/ \E n \in Requests : SetVar(n)
    \/ ChangeSetting
    \/ ChangeDefaults
    \/ startExec

\* The statement's life when the session's defaults can change under it.
SpecDefaults == Init /\ [][NextDefaults]_vars

\* ======================================================== properties

\* startExec has run and derived the string it hands to a setter.
Dispatched == pc = "executed" /\ trace.resolved

\* The node's descriptor is dispatched through its generic setter.
OnGenericPath == node.v.Set # "nil" /\ ~node.v.RuntimeSet /\ ~node.v.SetWithPlanner

TimeoutVars ==
    {"statement_timeout", "lock_timeout", "idle_in_session_timeout",
     "idle_in_transaction_session_timeout"}

\* The setter invocations recorded are calls of fn only.
CallsOnly(fn) == \A i \in 1..Len(trace.calls) : trace.calls[i].fn = fn

\* ----------------------------------------------------------------- C1
\* C1: SET SESSION on the generic setter path hands the one resolved string
\* to the mutators in stack order.  With k the number of invocations: the
\* first k - 1 succeeded, execute returns the k-th's error, every mutator
\* the setter succeeded on holds the value the setter gives it, and, if
\* the k-th failed, the mutators after it were not attempted and are as
\* they were.
C1_SessionAppliesInOrder ==
    (Dispatched /\ OnGenericPath /\ ~node.local) =>
        LET k == Len(trace.calls)
        IN /\ Len(mutators) = Len(trace.before)
           /\ k \in 1..Len(mutators)
           /\ \A i \in 1..k :
                 /\ trace.calls[i].fn = "Set"
                 /\ trace.calls[i].m = i
                 /\ trace.calls[i].s = trace.strVal
           /\ \A i \in 1..(k - 1) : trace.calls[i].err = NoErr
           /\ err = trace.calls[k].err
           /\ err = NoErr => k = Len(mutators)
           /\ \A i \in 1..Len(mutators) :
                 mutators[i] =
                     IF i < k \/ (i = k /\ err = NoErr)
                     THEN VarSet(node.v, trace.before[i], trace.strVal).data
                     ELSE trace.before[i]

\* The setter failed on the second of three mutators: the first is
\* changed, the third is not.
C1_Witness ==
    /\ Dispatched /\ OnGenericPath /\ ~node.local
    /\ Len(mutators) = 3
    /\ Len(trace.calls) = 2
    /\ err # NoErr
    /\ mutators[1] # trace.before[1]
    /\ mutators[3] = trace.before[3]

\* ----------------------------------------------------------------- C2
\* C2: SET LOCAL in an implicit transaction, on the generic setter path,
\* invokes no setter, leaves every mutator as it was, buffers the warning
\* and returns no error.
C2_LocalImplicitIsNoOp ==
    (Dispatched /\ OnGenericPath /\ node.local /\ txnImplicit) =>
        /\ mutators = trace.before
        /\ trace.calls = <<>>
        /\ err = NoErr
        /\ \E i \in 1..Len(notices) : notices[i] = LocalWarning

\* A SET LOCAL of a timeout to a value its setter would have stored.
C2_Witness ==
    /\ Dispatched /\ OnGenericPath /\ node.local /\ txnImplicit
    /\ node.name = "statement_timeout"
    /\ trace.strVal = DurationString(5 * Second)
    /\ mutators[Len(mutators)].StmtTimeout # 5 * Second
    /\ notices = <<LocalWarning>>

\* ----------------------------------------------------------------- C3
\* C3: SET LOCAL in an explicit transaction, on the generic setter path,
\* invokes the setter once, on the topmost mutator, and every mutator
\* below the top is as it was, whether the setter failed or not.
C3_LocalExplicitOnlyTop ==
    (Dispatched /\ OnGenericPath /\ node.local /\ ~txnImplicit) =>
        /\ Len(trace.calls) = 1
        /\ trace.calls[1].fn = "Set"
        /\ trace.calls[1].m = Len(mutators)
        /\ err = trace.calls[1].err
        /\ Len(mutators) = Len(trace.before)
        /\ \A i \in 1..(Len(mutators) - 1) : mutators[i] = trace.before[i]

\* The top of three mutators was changed.
C3_Witness ==
    /\ Dispatched /\ OnGenericPath /\ node.local /\ ~txnImplicit
    /\ Len(mutators) = 3
    /\ err = NoErr
    /\ mutators[3] # trace.before[3]
    /\ mutators[1] = trace.before[1] /\ mutators[2] = trace.before[2]

\* ----------------------------------------------------------------- C4
\* C4: an execution invokes one strategy at most: RuntimeSet if the
\* descriptor has it, else SetWithPlanner if it has that, else the
\* generic setter; and none if no string was derived.
C4_OneStrategyByPrecedence ==
    pc = "executed" =>
        /\ ~trace.resolved => trace.calls = <<>>
        /\ node.v.RuntimeSet =>
              CallsOnly("RuntimeSet") /\ (trace.resolved => Len(trace.calls) = 1)
        /\ (~node.v.RuntimeSet /\ node.v.SetWithPlanner) =>
              CallsOnly("SetWithPlanner") /\ (trace.resolved => Len(trace.calls) = 1)
        /\ (~node.v.RuntimeSet /\ ~node.v.SetWithPlanner) => CallsOnly("Set")

\* A descriptor with a runtime setter and a generic setter was executed
\* in session scope, and the generic setter was not called.
C4_Witness ==
    /\ Dispatched
    /\ node.v.RuntimeSet /\ node.v.Set # "nil" /\ ~node.local
    /\ Len(trace.calls) = 1 /\ trace.calls[1].fn = "RuntimeSet"
    /\ mutators = trace.before

\* ----------------------------------------------------------------- C5
\* SetVar has returned for a registered variable with no setter.
CompiledImmutable ==
    /\ pc \in {"planned", "rejected"}
    /\ ToLower(stmt.Name) \in DOMAIN varGen
    /\ varGen[ToLower(stmt.Name)].Set = "nil"
    /\ ~varGen[ToLower(stmt.Name)].RuntimeSet
    /\ ~varGen[ToLower(stmt.Name)].SetWithPlanner

IsResetRequest ==
    Len(stmt.Values) = 0 \/ (Len(stmt.Values) = 1 /\ stmt.Values[1].kind = "DefaultVal")

\* C5 as stated: for a variable with no setter SetVar fails with the
\* cannot-be-changed error, whatever the values are.
C5_AsStated ==
    CompiledImmutable =>
        pc = "rejected" /\ node = NoNode /\ err = newCannotChangeParameterError(ToLower(stmt.Name))

\* C5: for a variable with no setter SetVar fails and returns no node;
\* the error is the cannot-be-changed error for a RESET and for an
\* assignment whose expressions all type-check, and the value error of
\* the type check otherwise.
C5_ImmutableRejected ==
    CompiledImmutable =>
        /\ pc = "rejected"
        /\ node = NoNode
        /\ err = IF ~IsResetRequest /\ \E i \in 1..Len(stmt.Values) : ~stmt.Values[i].typeOk
                 THEN wrapSetVarError(ToLower(stmt.Name), "typecheck")
                 ELSE newCannotChangeParameterError(ToLower(stmt.Name))

\* An assignment of a well-typed value to a variable with no setter was
\* rejected.
C5_Witness ==
    /\ CompiledImmutable
    /\ stmt.Values = <<Expr(DInt(5000))>>
    /\ err.kind = "CantChangeRuntimeParam"

\* ----------------------------------------------------------------- C6
\* C6: the string a RESET applies is the session default if there is one,
\* and otherwise the global default of the settings as they are when
\* startExec runs.
C6_ResetResolvedAtExec ==
    (pc = "executed" /\ node.typedValues.nil) =>
        /\ trace.resolved
        /\ trace.strVal =
              IF node.name \in DOMAIN defaults THEN defaults[node.name]
              ELSE IF node.v.GlobalDefault = "timeout" THEN DurationString(settings.timeout)
              ELSE IF node.v.GlobalDefault = "utc" THEN Word("UTC")
              ELSE Word(node.name)
        /\ \A i \in 1..Len(trace.calls) : trace.calls[i].s = trace.strVal

\* A RESET of a timeout with no session default, executed after the
\* setting changed: the mutators hold the new setting's value.
C6_Witness ==
    /\ pc = "executed" /\ node.typedValues.nil
    /\ node.name = "lock_timeout" /\ ~node.local
    /\ trace.planSettings # settings
    /\ settings.timeout = 2 * Second
    /\ \A i \in 1..Len(mutators) : mutators[i].LockTimeout = 2 * Second

\* ----------------------------------------------------------------- C7
\* SetVar has returned for a RESET of a registered variable that has a
\* setter.
CompiledSettableReset ==
    /\ pc \in {"planned", "rejected"}
    /\ IsResetRequest
    /\ ToLower(stmt.Name) \in DOMAIN varGen
    /\ ~CompiledImmutable

\* C7: a RESET of a settable variable is rejected with the
\* cannot-be-changed error if the variable has neither a session default
\* nor a global default, and is planned if it has either.
C7_ResetNeedsDefault ==
    CompiledSettableReset =>
        IF ToLower(stmt.Name) \notin DOMAIN defaults
           /\ varGen[ToLower(stmt.Name)].GlobalDefault = "nil"
        THEN pc = "rejected" /\ err = newCannotChangeParameterError(ToLower(stmt.Name))
        ELSE pc = "planned" /\ err = NoErr /\ node.typedValues.nil

\* A RESET of a variable whose only default is the session's was planned.
C7_Witness ==
    /\ CompiledSettableReset
    /\ pc = "planned"
    /\ ToLower(stmt.Name) \in DOMAIN defaults
    /\ varGen[ToLower(stmt.Name)].GlobalDefault = "nil"

\* ----------------------------------------------------------------- C8
\* What a step of SetVar leaves alone.
CompileFrame ==
    UNCHANGED <<mutators, txnImplicit, defaults, settings, notices, telemetry>>

\* C8 as stated: SetVar fails with the unknown-parameter error for every
\* name that is not in the registry, and changes no session state.
C8_AsStated ==
    [][pc = "idle" =>
          /\ CompileFrame
          /\ ToLower(stmt'.Name) \notin DOMAIN varGen =>
                pc' = "rejected" /\ err'.kind = "UndefinedObject"]_vars

\* C8: SetVar fails with the unknown-parameter error for every name other
\* than the empty one that is not in the registry (the empty name is a
\* syntax error), and, failing or not, changes no session state.
C8_UnknownRejectedNoMutation ==
    [][pc = "idle" =>
          /\ CompileFrame
          /\ (stmt'.Name # "" /\ ToLower(stmt'.Name) \notin DOMAIN varGen) =>
                pc' = "rejected" /\ err'.kind = "UndefinedObject"
                /\ err'.name = ToLower(stmt'.Name)
          /\ stmt'.Name = "" => pc' = "rejected" /\ err'.kind = "Syntax"]_vars

\* SetVar rejected an unknown name.
C8_Witness ==
    /\ pc = "rejected"
    /\ stmt.Name = "no_such_var"
    /\ err.kind = "UndefinedObject"
    /\ mutators = trace.before

\* ----------------------------------------------------------------- C9
\* The string is a negative duration in every interval style.
NegativeText(text) ==
    \A style \in IntervalStyles :
        /\ ParseDIntervalWithTypeMetadata(style, text).ok
        /\ ~ParseDIntervalWithTypeMetadata(style, text).interval.overflow
        /\ ParseDIntervalWithTypeMetadata(style, text).interval.nanos < 0

NegativeTimeoutSet ==
    Dispatched /\ node.name \in TimeoutVars /\ NegativeText(trace.strVal)

\* C9 as stated: every execution that sets a timeout to a negative
\* duration fails with a value error naming the variable and changes no
\* mutator.
C9_AsStated ==
    NegativeTimeoutSet =>
        /\ err.kind = "InvalidParameterValue" /\ err.name = node.name
        /\ mutators = trace.before

\* C9: an execution that sets a timeout to a negative duration changes no
\* mutator; it fails with a value error naming the variable, unless it is
\* a SET LOCAL in an implicit transaction, which returns no error and
\* buffers the warning.
C9_NegativeTimeoutRejected ==
    NegativeTimeoutSet =>
        /\ mutators = trace.before
        /\ IF node.local /\ txnImplicit
           THEN err = NoErr /\ notices = <<LocalWarning>>
           ELSE err = wrapSetVarError(node.name, "cannot have a negative duration")

\* SET SESSION lock_timeout = -1 over several mutators failed.
C9_Witness ==
    /\ NegativeTimeoutSet
    /\ node.name = "lock_timeout" /\ ~node.local
    /\ stmt.Values = <<Expr(DInt(-1))>>
    /\ Len(mutators) > 1
    /\ err.detail = "cannot have a negative duration"

\* ---------------------------------------------------------------- C10
\* An interval of n milliseconds: beyond the range of the sub-day part it
\* needs days, and is then too large to encode.
IntervalOfMillis(n) ==
    IF n * Millisecond > MaxDur \/ n * Millisecond < MinDur
    THEN Interval(0, TRUE) ELSE Interval(n * Millisecond, FALSE)

\* The mutators after the statement of the state, had its value been d.
MutatorsHadItBeen(d) ==
    Exec([node EXCEPT !.typedValues = Values(<<Expr(d)>>)],
         [defaults |-> defaults, settings |-> settings],
         txnImplicit, trace.before, NoErr, 0).mutators

\* C10: after SET statement_timeout = n for an integer n the mutators
\* hold what they would hold had the value been the interval of n
\* milliseconds or the text 'n ms'.
C10_SameStoredDuration ==
    (/\ pc = "executed"
     /\ node.name = "statement_timeout"
     /\ Len(stmt.Values) = 1
     /\ stmt.Values[1].kind = "Expr" /\ stmt.Values[1].typeOk /\ stmt.Values[1].evalOk
     /\ stmt.Values[1].d.t = "DInt") =>
        /\ mutators = MutatorsHadItBeen(DString(Num(stmt.Values[1].d.i, "ms")))
        /\ mutators = MutatorsHadItBeen(DInterval(IntervalOfMillis(stmt.Values[1].d.i)))

\* ---------------------------------------------------------------- C11
\* startExec has run for SET timezone = d, d of the type t.
TimeZoneSetOf(t) ==
    /\ pc = "executed"
    /\ node.name = "timezone"
    /\ Len(stmt.Values) = 1
    /\ stmt.Values[1].kind = "Expr" /\ stmt.Values[1].typeOk /\ stmt.Values[1].evalOk
    /\ stmt.Values[1].d.t = t

\* C11: SET timezone to a decimal whose product with 3600 an int64 does
\* not hold fails with the value error that says it would overflow, and
\* changes nothing; and whenever the converter accepts a decimal, the
\* offset it computed is exactly 3600 times the decimal.
C11_DecimalOverflowRejected ==
    TimeZoneSetOf("DDecimal") =>
        LET milli == stmt.Values[1].d.i
            o == TimeZoneOffset(stmt.Values[1].d, 0)
        IN /\ Quo(milli * 18, 5) \notin MinDur..MaxDur =>
                 /\ err = wrapSetVarError("timezone", "would overflow an int64")
                 /\ ~trace.resolved
                 /\ trace.calls = <<>>
                 /\ mutators = trace.before
           /\ trace.resolved <=> o.err = NoErr
           /\ trace.resolved =>
                 /\ o.offset * 5 = milli * 18
                 /\ trace.strVal =
                       FixedOffsetTimeZoneToLocation(o.offset,
                                                     DatumString(stmt.Values[1].d)).name

\* A decimal too large for its seconds to fit was rejected in session
\* scope.
C11_Witness ==
    /\ TimeZoneSetOf("DDecimal")
    /\ stmt.Values[1].d.i = WrapsNegative * 1000
    /\ ~node.local
    /\ err.detail = "would overflow an int64"
    /\ mutators = trace.before

\* ---------------------------------------------------------------- C12
\* The offsets of the mutators' time zones.
ZoneOffsetsOf(ms) == [i \in 1..Len(ms) |-> ms[i].Location.offset]

\* C12, for the integer and the decimal shape: after SET timezone = h for
\* an integer h the mutators' zones have the offsets they would have had
\* the value been the decimal h.0, and every mutator the setter was
\* applied to has the offset h * 3600.
C12_SameZoneForEveryShape ==
    TimeZoneSetOf("DInt") =>
        LET h == stmt.Values[1].d.i
        IN /\ ZoneOffsetsOf(mutators) = ZoneOffsetsOf(MutatorsHadItBeen(DDecimal(h * 1000)))
           /\ \A i \in 1..Len(trace.calls) :
                 trace.calls[i].err = NoErr =>
                     mutators[trace.calls[i].m].Location.offset = h * 60 * 60

\* ---------------------------------------------------------------- C13
\* Spellings of registered names, each with the name in lower case.
Spellings ==
    {<<"TimeZone", "timezone">>, <<"TIMEZONE", "timezone">>, <<"timezone", "timezone">>,
     <<"LOCK_TIMEOUT", "lock_timeout">>, <<"lock_timeout", "lock_timeout">>}

\* C13: SetVar finds the descriptor of a name whatever the case of its
\* letters: the request has the outcome it has with the name in lower
\* case, and the node it returns holds the lower-case name and that name's
\* descriptor.
C13_LookupIgnoresCase ==
    \A sp \in Spellings :
        (pc \in {"planned", "rejected"} /\ stmt.Name = sp[1]) =>
            /\ err.kind # "UndefinedObject"
            /\ node = PlanSetVar([stmt EXCEPT !.Name = sp[2]], defaults).node
            /\ err = PlanSetVar([stmt EXCEPT !.Name = sp[2]], defaults).err
            /\ pc = "planned" => node.name = sp[2] /\ node.v = varGen[sp[2]]

\* SET TimeZone = 5 was planned under the name timezone.
C13_Witness ==
    /\ pc = "planned"
    /\ stmt.Name = "TimeZone"
    /\ stmt.Values = <<Expr(DInt(5))>>
    /\ node.name = "timezone"
    /\ node.v.Set = "timeZoneVarSet"

\* ---------------------------------------------------------------- C14
\* The node as SetVar returned it for the request of the state.
PlannedNode == PlanSetVar(stmt, defaults).node

\* What startExec would have done with the node n, were n's variable no
\* dummy variable.
WithoutDummy(n) ==
    Let(ResolveStrVal(n, [defaults |-> defaults, settings |-> settings], 0), LAMBDA r :
        ExecResult(r, DispatchSet(n, r.strVal, txnImplicit, trace.before, NoErr),
                   trace.before, FALSE))

\* C14: executing SET or RESET of a dummy variable buffers the no-op
\* warning first and counts the use once, and apart from that does what it
\* does for a variable that is no dummy: the same error, the same setter
\* invocations, the same mutators and the same further notices; for an
\* assignment the mutators are those that a variable of the same descriptor
\* which is no dummy leaves.
C14_DummyStillDispatched ==
    (pc = "executed" /\ node.name \in DummyVars) =>
        /\ telemetry = 1
        /\ notices = <<DummyWarning>> \o WithoutDummy(PlannedNode).notices
        /\ err = WithoutDummy(PlannedNode).err
        /\ mutators = WithoutDummy(PlannedNode).mutators
        /\ trace.calls = WithoutDummy(PlannedNode).calls
        /\ node.typedValues = WithoutDummy(PlannedNode).typedValues
        /\ ~node.typedValues.nil =>
              /\ varGen["application_name"] = node.v
              /\ mutators = WithoutDummy([PlannedNode EXCEPT !.name = "application_name"]).mutators

\* SET SESSION of a dummy variable changed the mutators, with the warning.
C14_Witness ==
    /\ pc = "executed" /\ node.name \in DummyVars
    /\ ~node.local /\ ~node.typedValues.nil
    /\ err = NoErr
    /\ Len(trace.calls) = Len(mutators)
    /\ mutators # trace.before
    /\ notices = <<DummyWarning>>
    /\ telemetry = 1

\* ---------------------------------------------------------------- C15
\* startExec has run for an assignment.
AssignmentExecuted == pc = "executed" /\ ~PlannedNode.typedValues.nil

\* The expressions of the request that fail to evaluate.
Failing == {i \in 1..Len(stmt.Values) : ~stmt.Values[i].evalOk}

\* C15: startExec evaluates the expressions of an assignment from the
\* first on and stops at the first that fails: the expressions before it
\* have been replaced by their values, it and those after it have not, and
\* the evaluation error is returned.  Whenever no string was derived, by a
\* failed evaluation or a failed conversion, an error is returned, no
\* setter was invoked and no mutator changed.
C15_EvalFailsFast ==
    AssignmentExecuted =>
        /\ Len(node.typedValues.elems) = Len(stmt.Values)
        /\ \A k \in Failing :
              (\A j \in Failing : k <= j) =>
                  /\ trace.evaluated = k - 1
                  /\ err = Err("Eval", node.name, "evaluation failed")
                  /\ ~trace.resolved
                  /\ \A i \in 1..Len(stmt.Values) :
                        node.typedValues.elems[i] =
                            IF i < k THEN Datum(stmt.Values[i].d) ELSE stmt.Values[i]
        /\ Failing = {} =>
              /\ trace.evaluated = Len(stmt.Values)
              /\ \A i \in 1..Len(stmt.Values) :
                    node.typedValues.elems[i] = Datum(stmt.Values[i].d)
        /\ ~trace.resolved =>
              /\ err # NoErr
              /\ trace.calls = <<>>
              /\ mutators = trace.before

\* The first of two expressions failed, and the second was left as it was.
C15_Witness ==
    /\ AssignmentExecuted
    /\ stmt.Values = <<FailingExpr, Expr(DInt(5000))>>
    /\ node.typedValues.elems = stmt.Values
    /\ err.kind = "Eval"
    /\ mutators = trace.before

\* ---------------------------------------------------------------- C16
\* C16: a node SetVar returns is a RESET node, with no typed values,
\* exactly when the request has no value or the one value DEFAULT; any
\* other node holds the request's expressions, at least one, each in its
\* place.  In particular DEFAULT among two values gives no RESET node.
C16_ResetClassification ==
    pc = "planned" =>
        /\ node.typedValues.nil <=> IsResetRequest
        /\ node.typedValues.nil => node.typedValues.elems = <<>>
        /\ ~node.typedValues.nil =>
              /\ Len(node.typedValues.elems) > 0
              /\ node.typedValues.elems = stmt.Values
              /\ \A i \in 1..Len(stmt.Values) : node.typedValues.elems[i].typeOk

\* DEFAULT followed by a second value was planned as an assignment of two
\* values.
C16_Witness ==
    /\ pc = "planned"
    /\ stmt.Values = <<DefaultVal, Expr(DInt(5000))>>
    /\ ~node.typedValues.nil
    /\ Len(node.typedValues.elems) = 2

\* ---------------------------------------------------------------- C17
\* The timeout of the mutator data m that the variable name names.
TimeoutOf(m, name) ==
    CASE name = "statement_timeout" -> m.StmtTimeout
      [] name = "lock_timeout" -> m.LockTimeout
      [] name = "idle_in_session_timeout" -> m.IdleInSessionTimeout
      [] OTHER -> m.IdleInTransactionSessionTimeout

\* startExec has run for SET of a timeout to one value that is neither
\* text nor an interval nor an integer.
TimeoutSetToOtherType ==
    /\ pc = "executed"
    /\ node.name \in TimeoutVars
    /\ Len(stmt.Values) = 1
    /\ stmt.Values[1].kind = "Expr" /\ stmt.Values[1].typeOk /\ stmt.Values[1].evalOk
    /\ stmt.Values[1].d.t \notin {"DString", "DInterval", "DInt"}

\* C17: for a value that is neither text nor an interval nor an integer
\* the timeout converter returns "0s" and no error: the setter is invoked
\* with "0s", accepts it, and every mutator it was invoked on has the
\* timeout zero, whatever the value was.
C17_UnsupportedTypeIsZero ==
    TimeoutSetToOtherType =>
        /\ trace.resolved
        /\ trace.strVal = <<Tok(FALSE, 0, 0, "s")>>
        /\ err = NoErr
        /\ ~(node.local /\ txnImplicit) => trace.calls # <<>>
        /\ \A i \in 1..Len(trace.calls) :
              /\ trace.calls[i].s = <<Tok(FALSE, 0, 0, "s")>>
              /\ trace.calls[i].err = NoErr
              /\ TimeoutOf(mutators[trace.calls[i].m], node.name) = 0

\* SET SESSION statement_timeout = 1.5 (a float) set a timeout of two
\* seconds to zero.
C17_Witness ==
    /\ TimeoutSetToOtherType
    /\ node.name = "statement_timeout" /\ ~node.local
    /\ stmt.Values[1].d = DFloat(1500)
    /\ Len(mutators) = 3
    /\ trace.before[3].StmtTimeout = 2 * Second
    /\ mutators[3].StmtTimeout = 0

\* ---------------------------------------------------------------- C18
\* startExec has run for a RESET.
ResetExecuted == pc = "executed" /\ node.typedValues.nil

C19_IntegerOffsetExact ==
    TimeZoneSetOf("DInt") =>
        LET h == stmt.Values[1].d.i
        IN \/ ~trace.resolved /\ err # NoErr /\ trace.calls = <<>>
           \/ /\ trace.resolved
              /\ trace.strVal =
                    FixedOffsetTimeZoneToLocation(h * 60 * 60,
                                                  DatumString(stmt.Values[1].d)).name

\* ---------------------------------------------------------------- C20
\* The mutators, as they were before startExec, whose data the node's
\* setter rejects the derived string for.
Rejecting ==
    {i \in 1..Len(trace.before) :
        VarSet(node.v, trace.before[i], trace.strVal).err # NoErr}

\* C20 as stated: a value the generic setter rejects makes the statement
\* fail whatever the scope and the transaction are.
C20_AsStated ==
    (Dispatched /\ OnGenericPath /\ Len(trace.before) \in Rejecting) => err # NoErr

\* C20: the outcome of an execution through the generic setter is the
\* setter's verdict only where the setter runs.  SET LOCAL in an implicit
\* transaction succeeds with the warning and without a setter call,
\* whatever the value; SET LOCAL in an explicit transaction returns what
\* the setter returns for the topmost mutator; SET SESSION returns the
\* error of the first mutator, from the bottom, that the setter rejects
\* the value for, and succeeds if there is none.
C20_OutcomeByScope ==
    (Dispatched /\ OnGenericPath) =>
        IF node.local /\ txnImplicit
        THEN /\ err = NoErr
             /\ trace.calls = <<>>
             /\ mutators = trace.before
             /\ LocalWarning \in {notices[i] : i \in 1..Len(notices)}
        ELSE IF node.local
        THEN err = VarSet(node.v, trace.before[Len(trace.before)], trace.strVal).err
        ELSE IF Rejecting = {} THEN err = NoErr
        ELSE err = VarSet(node.v,
                          trace.before[CHOOSE i \in Rejecting :
                                           \A j \in Rejecting : i <= j],
                          trace.strVal).err

\* SET LOCAL statement_timeout = -1 in an implicit transaction succeeded,
\* although the setter rejects the string for the mutator there is.
C20_Witness ==
    /\ Dispatched /\ OnGenericPath
    /\ node.name = "statement_timeout"
    /\ node.local /\ txnImplicit
    /\ stmt.Values = <<Expr(DInt(-1))>>
    /\ Rejecting = {1}
    /\ err = NoErr

====
